---- MODULE Spec2Model ----
(***************************************************************************)
(* Model of src/daily_digest.py: generate_morning_digest_stats, the        *)
(* function that queries the Airflow metadata database for today's DAG     *)
(* runs, computes the no-failure streak, classifies runs and fan-out tasks *)
(* into success / failed / running, sorts the buckets and derives the      *)
(* overall status.                                                         *)
(*                                                                         *)
(* Strings are TLA+ strings; characters are compared by code point, as     *)
(* Python compares str.  Instants are integers counting ticks of UTC time; *)
(* a local calendar day has TicksPerDay ticks (daylight-saving changes of  *)
(* the day length are not modelled).  NULL is the SQL NULL / Python None.  *)
(***************************************************************************)
EXTENDS Integers, Sequences, FiniteSets, TLC

\* ------------------------------------------------------------------ bounds

\* rows of the dag_run table when the history of the past year is explored
MaxHistoryRuns == 2

\* rows of the dag_run table when the runs of the current day are explored
MaxWindowRuns == 4

\* entries of a bucket when the sort is explored on its own
MaxSortLen == 3

\* instants per local calendar day
TicksPerDay == 2

\* ------------------------------------------------------- program constants

\* src/daily_digest.py:159
max_streak_check == 365

\* None as an owner or an error
NULL == "None"

\* a NULL start_date; it is tested for, never compared as an instant
NoDate == -1000

\* no value returned (yet)
NoStats == [ status_emoji |-> NULL ]

\* airflow.utils.state.State values the code names, and one it does not
SUCCESS == "success"
FAILED == "failed"
RUNNING == "running"
QUEUED == "queued"

\* ----------------------------------------------------------------- strings

\* the characters used, in code-point order
Alphabet == " %+-.0123456789:T_abcdefghijklmnopqrstuvwxyz"

CharAt(s, i) == SubSeq(s, i, i)

Ord(c) == CHOOSE i \in 1..Len(Alphabet) : CharAt(Alphabet, i) = c

RECURSIVE StrLessFrom(_, _, _)
StrLessFrom(a, b, i) ==
  IF i > Len(a) THEN i <= Len(b)
  ELSE IF i > Len(b) THEN FALSE
  ELSE IF CharAt(a, i) = CharAt(b, i) THEN StrLessFrom(a, b, i + 1)
  ELSE Ord(CharAt(a, i)) < Ord(CharAt(b, i))

\* Python's a < b on str
StrLess(a, b) == StrLessFrom(a, b, 1)

\* SQL LIKE: % matches any run of characters, _ any one character
RECURSIVE LikeFrom(_, _, _, _)
LikeFrom(s, i, pat, j) ==
  IF j > Len(pat) THEN i > Len(s)
  ELSE IF CharAt(pat, j) = "%"
       THEN \E k \in i..(Len(s) + 1) : LikeFrom(s, k, pat, j + 1)
  ELSE /\ i <= Len(s)
       /\ (CharAt(pat, j) = "_" \/ CharAt(pat, j) = CharAt(s, i))
       /\ LikeFrom(s, i + 1, pat, j + 1)

Like(s, pat) == LikeFrom(s, 1, pat, 1)

\* Python's str.replace(old, new): every non-overlapping occurrence, left to right
RECURSIVE ReplaceFrom(_, _, _, _)
ReplaceFrom(s, old, new, i) ==
  IF i > Len(s) THEN ""
  ELSE IF i + Len(old) - 1 <= Len(s) /\ SubSeq(s, i, i + Len(old) - 1) = old
       THEN new \o ReplaceFrom(s, old, new, i + Len(old))
  ELSE CharAt(s, i) \o ReplaceFrom(s, old, new, i + 1)

Replace(s, old, new) == ReplaceFrom(s, old, new, 1)

\* str.replace(old, new, 1): the first occurrence only
RECURSIVE ReplaceFirstFrom(_, _, _, _)
ReplaceFirstFrom(s, old, new, i) ==
  IF i > Len(s) THEN ""
  ELSE IF i + Len(old) - 1 <= Len(s) /\ SubSeq(s, i, i + Len(old) - 1) = old
       THEN new \o SubSeq(s, i + Len(old), Len(s))
  ELSE CharAt(s, i) \o ReplaceFirstFrom(s, old, new, i + 1)

ReplaceFirst(s, old, new) == ReplaceFirstFrom(s, old, new, 1)

\* \d{n}: every character of s is a decimal digit
IsDigits(s) ==
  \A i \in 1..Len(s) :
    CharAt(s, i) \in { "0", "1", "2", "3", "4", "5", "6", "7", "8", "9" }

Suffix(s, n) == SubSeq(s, Len(s) - n + 1, Len(s))

\* the length of the match of  sign(\d{4}|\d{2}%3A\d{2})$  in s, 0 without one
OffsetMatch(s, sign) ==
  IF /\ Len(s) >= 8
     /\ CharAt(s, Len(s) - 7) = sign
     /\ IsDigits(SubSeq(s, Len(s) - 6, Len(s) - 5))
     /\ SubSeq(s, Len(s) - 4, Len(s) - 2) = "%3A"
     /\ IsDigits(Suffix(s, 2))
  THEN 8
  ELSE IF Len(s) >= 5 /\ CharAt(s, Len(s) - 4) = sign /\ IsDigits(Suffix(s, 4))
  THEN 5
  ELSE 0

\* re.sub(r'sign(\d{4}|\d{2}%3A\d{2})$', r'encoded\1', s)
SubOffsetSign(s, sign, encoded) ==
  IF OffsetMatch(s, sign) = 0 THEN s
  ELSE SubSeq(s, 1, Len(s) - OffsetMatch(s, sign))
         \o encoded \o Suffix(s, OffsetMatch(s, sign) - 1)

\* a datetime: the date, the time of day and the UTC offset (sign, hours,
\* minutes; all empty for a naive datetime); NoExecutionDate is None
NoExecutionDate == [ ymd |-> "", hms |-> "", sign |-> "", off_h |-> "", off_m |-> "" ]

\* execution_date.strftime('%Y-%m-%d %H:%M:%S%z'): %z is +HHMM, without a colon
Strftime(d) == d.ymd \o " " \o d.hms \o d.sign \o d.off_h \o d.off_m

\* lines 34-67
format_airflow_dag_url(airflow_url, dag_id, execution_date, run_id) ==
  IF airflow_url = "" \/ execution_date = NoExecutionDate \/ run_id = "" THEN NULL
  ELSE LET step1 == ReplaceFirst(Strftime(execution_date), " ", "+")
           step2 == Replace(step1, ":", "%3A")
           plus == SubOffsetSign(step2, "+", "%2B")
           exec_date_str == SubOffsetSign(plus, "-", "%2D")
           run_id_encoded == Replace(Replace(run_id, ":", "%3A"), "+", "%2B")
       IN  airflow_url \o "/dags/" \o dag_id \o "/grid?execution_date="
             \o exec_date_str \o "&tab=graph&dag_run_id=" \o run_id_encoded

\* ------------------------------------------------------------------- time

\* local_tz (Australia/Melbourne) is ahead of UTC: local = UTC + UtcOffset
UtcOffset == 1

\* pendulum in_timezone('UTC') of a local instant
InTimezoneUTC(t_local) == t_local - UtcOffset

\* in_timezone(local_tz) of a UTC instant
InTimezoneLocal(t_utc) == t_utc + UtcOffset

\* now_local.replace(hour=0, minute=0, second=0, microsecond=0)
StartOfDay(t_local) == (t_local \div TicksPerDay) * TicksPerDay

\* the local calendar day of the invocation; days are numbered from 0
Today == max_streak_check + 2

\* the local instant at tick k of the day that lies `back` days before today
LocalInstant(back, k) == (Today - back) * TicksPerDay + k

LastTick == TicksPerDay - 1

\* ------------------------------------------------------------------ state

VARIABLES
  dag_run_table,        \* the rows of DagRun, in the order the database returns them
  task_instance_table,  \* the rows of TaskInstance
  dag_bag,              \* DagBag().dags: dag_id -> dag
  now_local,            \* pendulum.now(local_tz)
  pc,                   \* the position inside generate_morning_digest_stats
  dag_runs,             \* the local dag_runs
  included_dag_ids,     \* the local included_dag_ids
  streak_days,          \* the local streak_days
  success,              \* the three buckets
  failed,
  running,
  stats,                \* the value returned, NoStats before the return
  error                 \* the call whose exception left the function, NULL if none

vars == << dag_run_table, task_instance_table, dag_bag, now_local, pc, dag_runs,
           included_dag_ids, streak_days, success, failed, running, stats, error >>

env == << dag_run_table, task_instance_table, dag_bag, now_local >>

\* ------------------------------------------------------------ the database

\* the configured lists of the source
task_level_dag_ids ==
  { "common_schedules", "example_important_dag", "product_analytics_transform",
    "product_analytics_transform_weekly", "example_inventory_management" }

always_included == { "example_important_dag" }

monitored_owners == { "operations-analytics", "product-analytics" }

Range(f) == { f[i] : i \in DOMAIN f }

\* the concatenation of a sequence of sequences
RECURSIVE Flatten(_)
Flatten(ss) == IF ss = << >> THEN << >> ELSE Head(ss) \o Flatten(Tail(ss))

\* ~dag_id.like('%test%'), ~dag_id.like('%example%'), dag_id != 'daily_digest'
NotExcluded(dag_id) ==
  /\ ~Like(dag_id, "%test%")
  /\ ~Like(dag_id, "%example%")
  /\ dag_id # "daily_digest"

\* QueryDagRuns without the clause of the runs that are still running
QueryDagRunsStartedToday(start_of_day_utc, now_utc) ==
  SelectSeq(dag_run_table, LAMBDA r :
    /\ r.start_date # NoDate
    /\ r.start_date >= start_of_day_utc
    /\ r.start_date <= now_utc
    /\ NotExcluded(r.dag_id))

\* session.query(DagRun).filter(...).all() of the main window; a NULL
\* start_date makes every comparison NULL, so the row is not returned
QueryDagRuns(start_of_day_utc, now_utc) ==
  SelectSeq(dag_run_table, LAMBDA r :
    /\ r.start_date # NoDate
    /\ \/ (r.start_date >= start_of_day_utc /\ r.start_date <= now_utc)
       \/ (r.state = RUNNING /\ r.start_date <= now_utc)
    /\ NotExcluded(r.dag_id))

\* dag.owner, else default_args['owner'], else None
DagOwner(dag) ==
  IF dag.has_owner THEN dag.owner
  ELSE IF dag.default_args_owner # NULL THEN dag.default_args_owner
  ELSE NULL

\* IncludedDagIds that skips the owner filter when no DAG could be loaded
IncludedDagIdsFailOpen ==
  IF DOMAIN dag_bag = {}
  THEN always_included \cup { dag_run_table[i].dag_id : i \in DOMAIN dag_run_table }
  ELSE always_included
         \cup { d \in DOMAIN dag_bag : DagOwner(dag_bag[d]) \in monitored_owners }

\* included_dag_ids built from DagBag().dags
IncludedDagIds ==
  always_included
    \cup { d \in DOMAIN dag_bag : DagOwner(dag_bag[d]) \in monitored_owners }

\* [dr for dr in dag_runs if dr.dag_id in included_dag_ids]
FilterIncluded(runs) == SelectSeq(runs, LAMBDA r : r.dag_id \in IncludedDagIds)

\* QueryFailedRuns that leaves the runs of the fan-out jobs to the task query
QueryFailedRunsOrdinary(lo_utc, hi_utc) ==
  SelectSeq(dag_run_table, LAMBDA r :
    /\ r.state = FAILED
    /\ r.start_date # NoDate
    /\ r.start_date >= lo_utc
    /\ r.start_date < hi_utc
    /\ NotExcluded(r.dag_id)
    /\ r.dag_id \notin task_level_dag_ids)

\* session.query(DagRun) of the failed runs of one day
QueryFailedRuns(lo_utc, hi_utc) ==
  SelectSeq(dag_run_table, LAMBDA r :
    /\ r.state = FAILED
    /\ r.start_date # NoDate
    /\ r.start_date >= lo_utc
    /\ r.start_date < hi_utc
    /\ NotExcluded(r.dag_id))

\* session.query(TaskInstance).join(DagRun, ...): the failed run_dbt_task_for_
\* tasks of the fan-out runs of one day
QueryFailedTasks(lo_utc, hi_utc) ==
  SelectSeq(task_instance_table, LAMBDA t :
    /\ t.state = FAILED
    /\ \E i \in DOMAIN dag_run_table :
         /\ dag_run_table[i].dag_id = t.dag_id
         /\ dag_run_table[i].run_id = t.run_id
         /\ dag_run_table[i].start_date # NoDate
         /\ dag_run_table[i].start_date >= lo_utc
         /\ dag_run_table[i].start_date < hi_utc
         /\ dag_run_table[i].dag_id \in task_level_dag_ids
    /\ Like(t.task_id, "run_dbt_task_for_%"))

\* DayBreaksStreak with the day's bounds left in local time (no in_timezone)
DayBreaksStreakLocalBounds(day_offset) ==
  LET check_date_start == StartOfDay(now_local) - day_offset * TicksPerDay
      check_date_end == check_date_start + TicksPerDay
  IN  \/ FilterIncluded(QueryFailedRuns(check_date_start, check_date_end)) # << >>
      \/ QueryFailedTasks(check_date_start, check_date_end) # << >>

\* one iteration of the streak loop (lines 162-222): TRUE when the day's
\* failed_runs_filtered or failed_tasks is not empty
DayBreaksStreak(day_offset) ==
  LET check_date_start == StartOfDay(now_local) - day_offset * TicksPerDay
      check_date_end == check_date_start + TicksPerDay
      check_date_start_utc == InTimezoneUTC(check_date_start)
      check_date_end_utc == InTimezoneUTC(check_date_end)
  IN  \/ FilterIncluded(QueryFailedRuns(check_date_start_utc, check_date_end_utc)) # << >>
      \/ QueryFailedTasks(check_date_start_utc, check_date_end_utc) # << >>

NoFault == -1

\* The first day_offset of lo..hi-1, taken in ascending order, at which the loop
\* for day_offset in range(max_streak_check) is left (a query of that iteration
\* raises, or the day breaks the streak), and hi when it is left at none.  The
\* days are visited in the order of the loop, none after the first that stops
\* it; the range is halved only to keep the evaluation shallow.
RECURSIVE FirstStop(_, _, _)
FirstStop(fault_day, lo, hi) ==
  IF lo >= hi THEN hi
  ELSE IF hi = lo + 1
       THEN IF lo = fault_day \/ DayBreaksStreak(lo) THEN lo ELSE hi
  ELSE LET first == FirstStop(fault_day, lo, (lo + hi) \div 2)
       IN  IF first < (lo + hi) \div 2 THEN first
           ELSE FirstStop(fault_day, (lo + hi) \div 2, hi)

\* StreakLoop over range(1, max_streak_check + 1): from yesterday
StreakLoopFromYesterday(fault_day) ==
  LET stop == FirstStop(fault_day, 1, max_streak_check + 1)
  IN  [ streak_days |-> stop - 1,
        raised |-> stop < max_streak_check + 1 /\ stop = fault_day ]

\* StreakLoop over range(max_streak_check + 1): one day too many
StreakLoopOneMore(fault_day) ==
  LET stop == FirstStop(fault_day, 0, max_streak_check + 1)
  IN  [ streak_days |-> stop,
        raised |-> stop < max_streak_check + 1 /\ stop = fault_day ]

\* lines 157-224: streak_days is incremented once per iteration that neither
\* raises nor breaks.  fault_day is the iteration whose database query raises
\* (NoFault: none does)
StreakLoop(fault_day) ==
  LET stop == FirstStop(fault_day, 0, max_streak_check)
  IN  [ streak_days |-> stop,
        raised |-> stop < max_streak_check /\ stop = fault_day ]

\* ------------------------------------------------------- building the digest

\* task_level_runs / other_dag_runs
TaskLevelRuns(runs) == SelectSeq(runs, LAMBDA r : r.dag_id \in task_level_dag_ids)

\* OtherDagRuns without the split: the fan-out runs stay among the ordinary ones
OtherDagRunsUnsplit(runs) == runs

OtherDagRuns(runs) == SelectSeq(runs, LAMBDA r : r.dag_id \notin task_level_dag_ids)

\* the value of the airflow_url variable, here the one hardcoded at line 94
the_airflow_url == "https://your-airflow-instance.com"

\* dag_url of a run: the formatted URL, or the basic URL when there is none
DagUrl(dag_run) ==
  LET dag_url == IF /\ the_airflow_url # ""
                    /\ dag_run.execution_date # NoExecutionDate
                    /\ dag_run.run_id # ""
                 THEN format_airflow_dag_url(the_airflow_url, dag_run.dag_id,
                                             dag_run.execution_date, dag_run.run_id)
                 ELSE NULL
  IN  IF dag_url = NULL /\ the_airflow_url # ""
      THEN the_airflow_url \o "/dags/" \o dag_run.dag_id \o "/grid"
      ELSE dag_url

\* strftime('%I:%M %p') of the local time, abstracted to the tick of the local day
DisplayTime(start_date) ==
  IF start_date = NoDate THEN "N/A" ELSE InTimezoneLocal(start_date) % TicksPerDay

\* dag_info of an ordinary run
DagInfo(dag_run) ==
  [ dag_id |-> dag_run.dag_id,
    actual_dag_id |-> dag_run.dag_id,
    start_time |-> DisplayTime(dag_run.start_date),
    start_date |-> dag_run.start_date,
    run_id |-> dag_run.run_id,
    execution_date |-> dag_run.execution_date,
    dag_url |-> DagUrl(dag_run) ]

\* task_info of one task of a fan-out run
TaskInfo(dag_run, task_instance) ==
  [ dag_id |-> dag_run.dag_id \o " - "
                 \o Replace(task_instance.task_id, "run_dbt_task_for_", ""),
    actual_dag_id |-> dag_run.dag_id,
    start_time |-> DisplayTime(task_instance.start_date),
    start_date |-> IF task_instance.start_date # NoDate
                   THEN task_instance.start_date ELSE dag_run.start_date,
    run_id |-> dag_run.run_id,
    execution_date |-> dag_run.execution_date,
    dag_url |-> DagUrl(dag_run) ]

\* session.query(TaskInstance) of one fan-out run
QueryTaskInstances(dag_run) ==
  SelectSeq(task_instance_table, LAMBDA t :
    /\ t.dag_id = dag_run.dag_id
    /\ t.run_id = dag_run.run_id
    /\ Like(t.task_id, "run_dbt_task_for_%"))

\* Appended with a fan-out run's tasks bucketed by the state of the run
AppendedByRunState(runs, state) ==
  LET other == SelectSeq(OtherDagRuns(runs), LAMBDA r : r.state = state)
      level == SelectSeq(TaskLevelRuns(runs), LAMBDA r : r.state = state)
  IN  [ i \in DOMAIN other |-> DagInfo(other[i]) ]
      \o Flatten([ i \in DOMAIN level |->
           LET tis == QueryTaskInstances(level[i])
           IN  [ j \in DOMAIN tis |-> TaskInfo(level[i], tis[j]) ] ])

\* the entries appended to the bucket of `state`, in the order of the two loops:
\* the ordinary runs first, then every fan-out run's tasks
Appended(runs, state) ==
  LET other == SelectSeq(OtherDagRuns(runs), LAMBDA r : r.state = state)
      level == TaskLevelRuns(runs)
  IN  [ i \in DOMAIN other |-> DagInfo(other[i]) ]
      \o Flatten([ i \in DOMAIN level |->
           LET tis == SelectSeq(QueryTaskInstances(level[i]),
                                LAMBDA t : t.state = state)
           IN  [ j \in DOMAIN tis |-> TaskInfo(level[i], tis[j]) ] ])

\* pendulum.datetime(1900, 1, 1): earlier than every instant of the model
min_datetime == -1 - UtcOffset

\* the sort key (start_date or min_datetime, dag_id)
SortKey(x) ==
  << IF x.start_date # NoDate THEN x.start_date ELSE min_datetime, x.dag_id >>

\* Python's tuple comparison k1 < k2
KeyLess(k1, k2) ==
  \/ k1[1] < k2[1]
  \/ (k1[1] = k2[1] /\ StrLess(k1[2], k2[2]))

\* insert x behind every element whose key is not greater (the sort is stable)
RECURSIVE InsertSorted(_, _)
InsertSorted(sorted, x) ==
  IF sorted = << >> THEN << x >>
  ELSE IF KeyLess(SortKey(x), SortKey(Head(sorted))) THEN << x >> \o sorted
  ELSE << Head(sorted) >> \o InsertSorted(Tail(sorted), x)

\* SortEntries without the sort: the entries stay in the order of the loops
SortEntriesUnsorted(entries) == entries

RECURSIVE SortEntries(_)
\* list.sort(key=...)
SortEntries(entries) ==
  IF entries = << >> THEN << >>
  ELSE InsertSorted(SortEntries(SubSeq(entries, 1, Len(entries) - 1)),
                    entries[Len(entries)])

\* StatusEmoji with the running bucket tested before the failed one
StatusEmojiRunningFirst(failed_list, running_list) ==
  IF running_list # << >> THEN "in-progress"
  ELSE IF failed_list # << >> THEN "attention"
  ELSE "healthy"

\* status_emoji: the warning sign, the arrows, the check mark
StatusEmoji(failed_list, running_list) ==
  IF failed_list # << >> THEN "attention"
  ELSE IF running_list # << >> THEN "in-progress"
  ELSE "healthy"

\* ------------------------------------------------- the inputs of the model

\* UTC offsets of a logical date: UTC, five hours behind, none (naive)
Utc == [ sign |-> "+", off_h |-> "00", off_m |-> "00" ]

Minus5 == [ sign |-> "-", off_h |-> "05", off_m |-> "00" ]

Naive == [ sign |-> "", off_h |-> "", off_m |-> "" ]

\* the logical date of the i-th row: one second after the row before
LogicalDate(i, tz) ==
  [ ymd |-> "2025-11-18", hms |-> "19:00:0" \o CharAt("0123456789", i),
    sign |-> tz.sign, off_h |-> tz.off_h, off_m |-> tz.off_m ]

\* datetime.isoformat()
IsoFormat(d) ==
  d.ymd \o "T" \o d.hms
    \o (IF d.sign = "" THEN "" ELSE d.sign \o d.off_h \o ":" \o d.off_m)

\* the run_id the scheduler gives the i-th row
RunId(i, tz) == "scheduled__" \o IsoFormat(LogicalDate(i, tz))

\* The multisets of at most max_rows choices out of the sequence `choices`,
\* each as the ascending sequence of its indices
Draws(choices, max_rows) ==
  UNION { { f \in [1..n -> DOMAIN choices] : \A a, b \in 1..n : a < b => f[a] <= f[b] }
          : n \in 0..max_rows }

\* the dag_run rows of a draw; run ids follow the row order
DagRunRows(choices, draw) ==
  [ i \in DOMAIN draw |-> [ dag_id |-> choices[draw[i]].dag_id,
                            run_id |-> RunId(i, choices[draw[i]].tz),
                            state |-> choices[draw[i]].state,
                            start_date |-> choices[draw[i]].start_date,
                            execution_date |->
                              IF choices[draw[i]].has_execution_date
                              THEN LogicalDate(i, choices[draw[i]].tz)
                              ELSE NoExecutionDate ] ]

\* the task_instance rows of a draw: the tasks of every run, keyed by its ids
TaskInstanceRows(choices, draw) ==
  Flatten([ i \in DOMAIN draw |->
    [ j \in DOMAIN choices[draw[i]].tasks |->
        [ dag_id |-> choices[draw[i]].dag_id,
          run_id |-> RunId(i, choices[draw[i]].tz),
          task_id |-> choices[draw[i]].tasks[j].task_id,
          state |-> choices[draw[i]].tasks[j].state,
          start_date |-> choices[draw[i]].tasks[j].start_date ] ] ])

\* the DAGs of the dag folder: an owner attribute, an owner in default_args only,
\* another team's DAGs, and DAGs the queries exclude by name
LoadedDags ==
  [ d \in { "sales_report", "orders_sync", "common_schedules", "finance_load",
            "product_analytics_transform", "load_test_data", "daily_digest" } |->
    CASE d = "sales_report" ->
           [has_owner |-> TRUE, owner |-> "operations-analytics", default_args_owner |-> NULL]
      [] d = "orders_sync" ->
           [has_owner |-> TRUE, owner |-> "product-analytics", default_args_owner |-> NULL]
      [] d = "common_schedules" ->
           [has_owner |-> FALSE, owner |-> NULL, default_args_owner |-> "product-analytics"]
      [] d = "finance_load" ->
           [has_owner |-> TRUE, owner |-> "finance", default_args_owner |-> "operations-analytics"]
      [] d = "product_analytics_transform" ->
           [has_owner |-> TRUE, owner |-> "data-platform", default_args_owner |-> NULL]
      [] d = "load_test_data" ->
           [has_owner |-> TRUE, owner |-> "operations-analytics", default_args_owner |-> NULL]
      [] OTHER ->
           [has_owner |-> FALSE, owner |-> NULL, default_args_owner |-> "operations-analytics"] ]

\* a dag folder from which no DAG could be loaded
NoDags == [ d \in {} |-> NULL ]

InitLocals ==
  /\ pc = "start"
  /\ dag_runs = << >>
  /\ included_dag_ids = {}
  /\ streak_days = 0
  /\ success = << >>
  /\ failed = << >>
  /\ running = << >>
  /\ stats = NoStats
  /\ error = NULL

InitWith(nows, bags, choices, max_rows) ==
  /\ now_local \in nows
  /\ dag_bag \in bags
  /\ \E draw \in Draws(choices, max_rows) :
       /\ dag_run_table = DagRunRows(choices, draw)
       /\ task_instance_table = TaskInstanceRows(choices, draw)
  /\ InitLocals

\* ---------------------------------------------------------------- actions

Raise(call) ==
  /\ pc' = "raised"
  /\ error' = call

\* QueryMainWindow that catches the failure of the query and goes on without runs
QueryMainWindowCaught ==
  /\ pc = "start"
  /\ \/ /\ dag_runs' = QueryDagRuns(InTimezoneUTC(StartOfDay(now_local)),
                                    InTimezoneUTC(now_local))
        /\ UNCHANGED error
     \/ /\ dag_runs' = << >>
        /\ error' = "main_query"
  /\ pc' = "dagbag"
  /\ UNCHANGED << env, included_dag_ids, streak_days, success, failed, running, stats >>

\* lines 108-124: the main-window query, which returns or raises
QueryMainWindow ==
  /\ pc = "start"
  /\ \/ /\ dag_runs' = QueryDagRuns(InTimezoneUTC(StartOfDay(now_local)),
                                    InTimezoneUTC(now_local))
        /\ pc' = "dagbag"
        /\ UNCHANGED error
     \/ /\ Raise("main_query")
        /\ UNCHANGED dag_runs
  /\ UNCHANGED << env, included_dag_ids, streak_days, success, failed, running, stats >>

\* lines 129-148: DagBag(), included_dag_ids, the filter of dag_runs
FilterByOwner ==
  /\ pc = "dagbag"
  /\ \/ /\ included_dag_ids' = IncludedDagIds
        /\ dag_runs' = FilterIncluded(dag_runs)
        /\ pc' = "streak"
        /\ UNCHANGED error
     \/ /\ Raise("dagbag")
        /\ UNCHANGED << dag_runs, included_dag_ids >>
  /\ UNCHANGED << env, streak_days, success, failed, running, stats >>

\* the iterations whose query may raise
FaultDays == { 0, 2 }

\* StreakScan that catches the failure of a day's query and leaves the loop
StreakScanCaught ==
  /\ pc = "streak"
  /\ \E fault_day \in FaultDays \cup { NoFault } :
       LET r == StreakLoop(fault_day)
       IN  /\ pc' = "classify"
           /\ streak_days' = r.streak_days
           /\ included_dag_ids' = IncludedDagIds
           /\ error' = IF r.raised THEN "streak_query" ELSE error
  /\ UNCHANGED << env, dag_runs, success, failed, running, stats >>

\* lines 157-224: the streak loop; the queries of one iteration may raise
StreakScan ==
  /\ pc = "streak"
  /\ \E fault_day \in FaultDays \cup { NoFault } :
       LET r == StreakLoop(fault_day)
       IN  IF r.raised
           THEN /\ Raise("streak_query")
                /\ streak_days' = r.streak_days
                /\ UNCHANGED included_dag_ids
           ELSE /\ pc' = "classify"
                /\ streak_days' = r.streak_days
                /\ included_dag_ids' = IncludedDagIds
                /\ UNCHANGED error
  /\ UNCHANGED << env, dag_runs, success, failed, running, stats >>

\* lines 226-407: classification, the sort, the status and the returned stats;
\* the task query of a fan-out run may raise
BuildDigest ==
  /\ pc = "classify"
  /\ \/ LET s == SortEntries(Appended(dag_runs, SUCCESS))
            f == SortEntries(Appended(dag_runs, FAILED))
            r == SortEntries(Appended(dag_runs, RUNNING))
        IN  /\ success' = s
            /\ failed' = f
            /\ running' = r
            /\ stats' = [ status_emoji |-> StatusEmoji(f, r),
                          success_count |-> Len(s),
                          failed_count |-> Len(f),
                          running_count |-> Len(r),
                          streak_days |-> streak_days,
                          success_dags |-> s,
                          failed_dags |-> f,
                          running_dags |-> r,
                          timestamp |-> now_local ]
            /\ pc' = "done"
            /\ UNCHANGED error
     \/ /\ TaskLevelRuns(dag_runs) # << >>
        /\ Raise("task_query")
        /\ UNCHANGED << success, failed, running, stats >>
  /\ UNCHANGED << env, dag_runs, included_dag_ids, streak_days >>

Next == QueryMainWindow \/ FilterByOwner \/ StreakScan \/ BuildDigest

\* a start_date: tick k of the local day `back` days before today, stored in UTC
At(back, k) == InTimezoneUTC(LocalInstant(back, k))

Run(d, st, sd, ts) ==
  [ dag_id |-> d, state |-> st, start_date |-> sd, tasks |-> ts,
    tz |-> Utc, has_execution_date |-> TRUE ]

Task(t, st, sd) == [ task_id |-> t, state |-> st, start_date |-> sd ]

\* Start dates of the past year, on both sides of the boundary between today
\* and yesterday and of the end of the scan
HistoryStarts ==
  << At(0, 0), At(1, LastTick), At(5, 0),
     At(max_streak_check - 1, 0), At(max_streak_check, LastTick) >>

\* The runs of the history: a failed run of a monitored job, of another team's
\* job, of a monitored fan-out job whose tasks succeeded; a failed task of
\* another team's fan-out job; a failed task outside the naming convention
HistoryKinds ==
  << Run("sales_report", FAILED, NoDate, << >>),
     Run("finance_load", FAILED, NoDate, << >>),
     Run("common_schedules", FAILED, NoDate,
         << Task("run_dbt_task_for_sales", SUCCESS, NoDate) >>),
     Run("product_analytics_transform", SUCCESS, NoDate,
         << Task("run_dbt_task_for_sales", FAILED, NoDate) >>),
     Run("common_schedules", SUCCESS, NoDate,
         << Task("load_raw", FAILED, NoDate) >>) >>

HistoryRuns ==
  [ n \in 1..(Len(HistoryKinds) * Len(HistoryStarts)) |->
      [ HistoryKinds[((n - 1) \div Len(HistoryStarts)) + 1]
          EXCEPT !.start_date = HistoryStarts[((n - 1) % Len(HistoryStarts)) + 1] ] ]

\* Runs of a monitored job that are still running: started days ago, at the
\* instant of the invocation, and after it (between line 75 and the query)
StillRunning ==
  << Run("sales_report", RUNNING, At(5, 0), << >>),
     Run("sales_report", RUNNING, At(0, LastTick), << >>),
     Run("sales_report", RUNNING, At(0, LastTick) + 1, << >>) >>

\* The runs of the current day
WindowRuns ==
  << Run("sales_report", SUCCESS, At(0, 0), << >>),
     Run("sales_report", FAILED, At(0, LastTick), << >>),
     [ Run("orders_sync", SUCCESS, At(0, 0), << >>) EXCEPT !.tz = Minus5 ],
     [ Run("orders_sync", RUNNING, At(1, LastTick), << >>)
         EXCEPT !.has_execution_date = FALSE ],
     Run("orders_sync", QUEUED, At(0, 0), << >>),
     Run("finance_load", FAILED, At(0, 0), << >>),
     Run("load_test_data", SUCCESS, At(0, 0), << >>),
     Run("common_schedules", FAILED, At(0, 0),
         << Task("load_raw", SUCCESS, At(0, 0)) >>),
     Run("common_schedules", FAILED, At(0, LastTick),
         << Task("run_dbt_task_for_sales", SUCCESS, At(0, 0)),
            Task("run_dbt_task_for_ops", FAILED, NoDate) >>),
     [ Run("common_schedules", RUNNING, At(0, 0),
           << Task("run_dbt_task_for_sales", RUNNING, At(0, LastTick)),
              Task("run_dbt_task_for_ops", QUEUED, NoDate) >>)
         EXCEPT !.tz = Naive ],
     Run("product_analytics_transform", SUCCESS, At(0, 0),
         << Task("run_dbt_task_for_sales", FAILED, At(0, 0)) >>),
     Run("sales_report", SUCCESS, NoDate, << >>) >>

\* the invocation late in the day
Now == LocalInstant(0, LastTick)

\* the history of the past year, with and without loadable DAG definitions
Init ==
  InitWith({ Now }, { LoadedDags, NoDags }, HistoryRuns \o StillRunning, MaxHistoryRuns)

\* the runs of the current day
InitWindow == InitWith({ Now }, { LoadedDags }, WindowRuns, MaxWindowRuns)

Spec == Init /\ [][Next]_vars

SpecWindow == InitWindow /\ [][Next]_vars

\* ------------------------------------------------- the sort on its own

\* lines 359-364 applied to the buckets as the two loops left them
SortBuckets ==
  /\ pc = "sort"
  /\ success' = SortEntries(success)
  /\ failed' = SortEntries(failed)
  /\ running' = SortEntries(running)
  /\ pc' = "sorted"
  /\ UNCHANGED << env, dag_runs, included_dag_ids, streak_days, stats, error >>

NextSort == SortBuckets

\* the runs of which the sorted entries are made: one has no start_date, which
\* the key of the sort provides for
SortRuns ==
  << Run("sales_report", SUCCESS, NoDate, << >>),
     Run("orders_sync", SUCCESS, At(0, 0), << >>),
     Run("finance_report", SUCCESS, At(0, LastTick), << >>),
     Run("sales_report", SUCCESS, At(0, 0), << >>) >>

SortInputs ==
  LET rows == DagRunRows(SortRuns, [ i \in DOMAIN SortRuns |-> i ])
  IN  [ i \in DOMAIN rows |-> DagInfo(rows[i]) ]

\* the lists of at most n of these entries, in every order
EntryLists(n) ==
  UNION { { [ i \in 1..k |-> SortInputs[f[i]] ] : f \in [1..k -> DOMAIN SortInputs] }
          : k \in 0..n }

InitSort ==
  /\ pc = "sort"
  /\ now_local = Now
  /\ dag_bag = LoadedDags
  /\ dag_run_table = << >>
  /\ task_instance_table = << >>
  /\ dag_runs = << >>
  /\ included_dag_ids = {}
  /\ streak_days = 0
  /\ stats = NoStats
  /\ error = NULL
  /\ success \in EntryLists(MaxSortLen)
  /\ failed \in EntryLists(1)
  /\ running \in EntryLists(1)

SpecSort == InitSort /\ [][NextSort]_vars

\* ------------------------------------------------- notions used by the claims

Done == pc = "done"

Min(a, b) == IF a <= b THEN a ELSE b

\* how many local calendar days before today a UTC instant lies
DaysBack(start_date) == Today - ((start_date + UtcOffset) \div TicksPerDay)

\* the job is in the monitored set: an allowed owner, or always included
Monitored(dag_id) ==
  \/ dag_id \in always_included
  \/ /\ dag_id \in DOMAIN dag_bag
     /\ (IF dag_bag[dag_id].has_owner THEN dag_bag[dag_id].owner
         ELSE dag_bag[dag_id].default_args_owner) \in monitored_owners

ExcludedByName(dag_id) ==
  \/ \E i \in 1..(Len(dag_id) - 3) : SubSeq(dag_id, i, i + 3) = "test"
  \/ \E i \in 1..(Len(dag_id) - 6) : SubSeq(dag_id, i, i + 6) = "example"
  \/ dag_id = "daily_digest"

HasTaskPrefix(task_id) ==
  Len(task_id) >= 17 /\ SubSeq(task_id, 1, 17) = "run_dbt_task_for_"

RunOf(t) ==
  CHOOSE i \in DOMAIN dag_run_table :
    dag_run_table[i].dag_id = t.dag_id /\ dag_run_table[i].run_id = t.run_id

StartedRuns == { i \in DOMAIN dag_run_table : dag_run_table[i].start_date # NoDate }

\* the days (counted back from today, today being 0) with a FAILED run of a
\* monitored job that the queries do not exclude by name
FailedRunDays ==
  { DaysBack(dag_run_table[i].start_date) :
      i \in { j \in StartedRuns : /\ dag_run_table[j].state = FAILED
                                  /\ Monitored(dag_run_table[j].dag_id)
                                  /\ ~ExcludedByName(dag_run_table[j].dag_id) } }

\* the days with a FAILED run_dbt_task_for_ task in a run of a fan-out job,
\* whether or not the job is monitored
FailedTaskDays ==
  { DaysBack(dag_run_table[RunOf(task_instance_table[j])].start_date) :
      j \in { k \in DOMAIN task_instance_table :
                /\ task_instance_table[k].state = FAILED
                /\ HasTaskPrefix(task_instance_table[k].task_id)
                /\ task_instance_table[k].dag_id \in task_level_dag_ids
                /\ RunOf(task_instance_table[k]) \in StartedRuns } }

\* the days with a failure that the streak scan counts
ScanFailureDays == FailedRunDays \cup FailedTaskDays

\* the days with a failure of a monitored job: a FAILED run, or a FAILED
\* run_dbt_task_for_ task of a monitored fan-out job
MonitoredFailureDays ==
  FailedRunDays
    \cup { DaysBack(dag_run_table[RunOf(task_instance_table[j])].start_date) :
             j \in { k \in DOMAIN task_instance_table :
                       /\ task_instance_table[k].state = FAILED
                       /\ HasTaskPrefix(task_instance_table[k].task_id)
                       /\ task_instance_table[k].dag_id \in task_level_dag_ids
                       /\ Monitored(task_instance_table[k].dag_id)
                       /\ ~ExcludedByName(task_instance_table[k].dag_id)
                       /\ RunOf(task_instance_table[k]) \in StartedRuns } }

\* the most recent of a non-empty set of days
MostRecent(days) == CHOOSE d \in days : \A e \in days : d <= e

\* ------------------------------------------------------------------ claims

\* C1, as stated: if day D has a monitored failure and the days D+1..D+k have
\* none, the call on day D+k+1 returns streak_days = k (capped at 365): the
\* streak ends yesterday, the scan starts from the day before today.
C1_StreakEndsYesterday ==
  Done =>
    \A b \in MonitoredFailureDays :
      (b >= 1 /\ \A e \in MonitoredFailureDays : e >= b \/ e < 1)
        => stats.streak_days = Min(b - 1, max_streak_check)

\* C1, amended: the scan starts from today (day_offset 0).  If day D has a
\* failure that the scan counts and the days D+1..D+k+1, today included, have
\* none, the call on day D+k+1 returns streak_days = k+1 (capped at 365); it
\* returns 0 when today has such a failure.
C1_StreakEndsToday ==
  Done =>
    /\ \A b \in ScanFailureDays :
         (\A e \in ScanFailureDays : e >= b)
           => stats.streak_days = Min(b, max_streak_check)
    /\ 0 \in ScanFailureDays => stats.streak_days = 0

\* C1: a failure yesterday and a clean today give a streak of 1, not 0
C1_Witness ==
  /\ Done
  /\ 1 \in MonitoredFailureDays
  /\ 0 \notin ScanFailureDays
  /\ stats.streak_days = 1

\* C2: with no run in the current window and the most recent monitored failure
\* n days before today (n = 5 in the scenario), streak_days = n.
C2_StreakOfMonitoredFailure ==
  Done =>
    \A n \in MonitoredFailureDays :
      ( /\ n <= max_streak_check
        /\ \A i \in StartedRuns : DaysBack(dag_run_table[i].start_date) >= 1
        /\ \A e \in MonitoredFailureDays : e >= n )
        => stats.streak_days = n

\* The same for the histories in which the scan finds no failure more recent
\* than n days before today, of a monitored job or not.
C2_StreakOfScenario ==
  Done =>
    \A n \in MonitoredFailureDays :
      ( /\ n <= max_streak_check
        /\ \A i \in StartedRuns : DaysBack(dag_run_table[i].start_date) >= 1
        /\ \A e \in ScanFailureDays : e >= n )
        => stats.streak_days = n

\* C2: the scenario: nothing today, the first failure 5 days back
C2_Witness ==
  /\ Done
  /\ dag_runs = << >>
  /\ MonitoredFailureDays # {}
  /\ MostRecent(MonitoredFailureDays) = 5
  /\ \A i \in StartedRuns : DaysBack(dag_run_table[i].start_date) >= 1
  /\ stats.streak_days = 5

\* C3: streak_days is an integer of 0..365, and it is 365 whenever none of the
\* 365 scanned days (today and the 364 before) has a failure; a failure further
\* back is never looked at.
C3_StreakCapped ==
  Done =>
    /\ stats.streak_days \in 0..max_streak_check
    /\ (\A e \in ScanFailureDays : e >= max_streak_check)
         => stats.streak_days = max_streak_check

\* C3: a failure 365 days back, beyond the scan, and the cap is returned
C3_Witness ==
  /\ Done
  /\ max_streak_check \in MonitoredFailureDays
  /\ stats.streak_days = max_streak_check

\* ------------------------------------------------ claims about the digest

Buckets == << success, failed, running >>

BucketStates == << SUCCESS, FAILED, RUNNING >>

\* the indices of the entries of bucket b that come from run r
EntriesOf(b, r) ==
  { k \in DOMAIN Buckets[b] : /\ Buckets[b][k].actual_dag_id = r.dag_id
                              /\ Buckets[b][k].run_id = r.run_id }

\* the indices of the tasks of run r that the task query matches
MatchingTasks(r) ==
  { k \in DOMAIN task_instance_table :
      /\ task_instance_table[k].dag_id = r.dag_id
      /\ task_instance_table[k].run_id = r.run_id
      /\ Like(task_instance_table[k].task_id, "run_dbt_task_for_%") }

MatchingTasksIn(r, state) ==
  { k \in MatchingTasks(r) : task_instance_table[k].state = state }

FanOut(r) == r.dag_id \in task_level_dag_ids

\* C4: a monitored fan-out run of the window without a task that matches the
\* run_dbt_task_for_ pattern has no entry in the success, failed or running
\* bucket, whatever its own state.
C4_FanOutSilentDrop ==
  Done =>
    \A i \in DOMAIN dag_runs :
      (FanOut(dag_runs[i]) /\ MatchingTasks(dag_runs[i]) = {})
        => \A b \in 1..3 : EntriesOf(b, dag_runs[i]) = {}

\* C4: a FAILED fan-out run whose only task is outside the pattern is absent
\* from the failed bucket
C4_Witness ==
  /\ Done
  /\ \E i \in DOMAIN dag_runs :
       /\ FanOut(dag_runs[i])
       /\ dag_runs[i].state = FAILED
       /\ MatchingTasks(dag_runs[i]) = {}
       /\ \E k \in DOMAIN task_instance_table :
            /\ task_instance_table[k].dag_id = dag_runs[i].dag_id
            /\ task_instance_table[k].run_id = dag_runs[i].run_id
       /\ \A b \in 1..3 : EntriesOf(b, dag_runs[i]) = {}

\* every entry of every bucket comes from a run that survived the filter, and
\* the three counts are the lengths of the buckets
EntriesComeFromRuns ==
  /\ \A b \in 1..3 : \A k \in DOMAIN Buckets[b] :
       \E i \in DOMAIN dag_runs : k \in EntriesOf(b, dag_runs[i])
  /\ stats.success_count = Len(success)
  /\ stats.failed_count = Len(failed)
  /\ stats.running_count = Len(running)

\* an ordinary run in state SUCCESS, FAILED or RUNNING has one entry, in the
\* bucket of its state; in any other state it has none
OrdinaryRunsPartitioned ==
  \A i \in DOMAIN dag_runs : ~FanOut(dag_runs[i]) =>
    \A b \in 1..3 :
      Cardinality(EntriesOf(b, dag_runs[i]))
        = IF dag_runs[i].state = BucketStates[b] THEN 1 ELSE 0

\* C5, as stated: every surviving run is handled in exactly one way; a fan-out
\* run yields one entry per matching task, bucketed by the task's state, and
\* the counts are exactly these totals.
C5_OneEntryPerMatchingTask ==
  Done =>
    /\ EntriesComeFromRuns
    /\ OrdinaryRunsPartitioned
    /\ \A i \in DOMAIN dag_runs : FanOut(dag_runs[i]) =>
         /\ \A b \in 1..3 : \A k \in EntriesOf(b, dag_runs[i]) :
              \E t \in MatchingTasksIn(dag_runs[i], BucketStates[b]) : TRUE
         /\ Cardinality(EntriesOf(1, dag_runs[i]))
              + Cardinality(EntriesOf(2, dag_runs[i]))
              + Cardinality(EntriesOf(3, dag_runs[i]))
              = Cardinality(MatchingTasks(dag_runs[i]))

\* C5, amended: as stated, but a fan-out run yields one entry per matching task
\* whose state is SUCCESS, FAILED or RUNNING, in the bucket of the task's state;
\* a matching task in any other state yields no entry.
C5_PartitionComplete ==
  Done =>
    /\ EntriesComeFromRuns
    /\ OrdinaryRunsPartitioned
    /\ \A i \in DOMAIN dag_runs : FanOut(dag_runs[i]) =>
         \A b \in 1..3 :
           Cardinality(EntriesOf(b, dag_runs[i]))
             = Cardinality(MatchingTasksIn(dag_runs[i], BucketStates[b]))

\* C5: the scenario: three ordinary runs, two SUCCESS and one FAILED, and a
\* fan-out run with a SUCCESS and a FAILED task are counted 3, 2, 0
C5_Witness ==
  /\ Done
  /\ Len(dag_runs) = 4
  /\ Cardinality({ i \in DOMAIN dag_runs :
                     ~FanOut(dag_runs[i]) /\ dag_runs[i].state = SUCCESS }) = 2
  /\ Cardinality({ i \in DOMAIN dag_runs :
                     ~FanOut(dag_runs[i]) /\ dag_runs[i].state = FAILED }) = 1
  /\ \E i \in DOMAIN dag_runs :
       /\ FanOut(dag_runs[i])
       /\ Cardinality(MatchingTasksIn(dag_runs[i], SUCCESS)) = 1
       /\ Cardinality(MatchingTasksIn(dag_runs[i], FAILED)) = 1
       /\ Cardinality(MatchingTasks(dag_runs[i])) = 2
  /\ stats.success_count = 3
  /\ stats.failed_count = 2
  /\ stats.running_count = 0

\* C6: the status is 'attention' exactly when the failed bucket is not empty,
\* 'in-progress' exactly when the failed bucket is empty and the running bucket
\* is not, and 'healthy' otherwise, also when all three buckets are empty.
C6_StatusPriority ==
  Done =>
    /\ stats.status_emoji = "attention" <=> stats.failed_dags # << >>
    /\ stats.status_emoji = "in-progress"
         <=> (stats.failed_dags = << >> /\ stats.running_dags # << >>)
    /\ stats.status_emoji = "healthy"
         <=> (stats.failed_dags = << >> /\ stats.running_dags = << >>)

\* C6: failed and running entries together give 'attention'
C6_Witness ==
  /\ Done
  /\ stats.failed_dags # << >>
  /\ stats.running_dags # << >>
  /\ stats.success_dags # << >>
  /\ stats.status_emoji = "attention"

\* the task of which the fan-out entry e is made
TaskOfEntry(e) ==
  { k \in DOMAIN task_instance_table :
      /\ task_instance_table[k].dag_id = e.actual_dag_id
      /\ task_instance_table[k].run_id = e.run_id
      /\ HasTaskPrefix(task_instance_table[k].task_id)
      /\ e.dag_id = e.actual_dag_id \o " - "
                      \o SubSeq(task_instance_table[k].task_id, 18,
                                Len(task_instance_table[k].task_id)) }

\* C7: in each returned bucket, adjacent entries are in ascending order of
\* (start time, label): the start time never decreases and entries that share
\* it are ordered by label; the start time of a fan-out entry is its task's,
\* or the parent run's when the task has none.
C7_BucketsSorted ==
  Done =>
    \A b \in 1..3 :
      /\ \A k \in 1..(Len(Buckets[b]) - 1) :
           \/ Buckets[b][k].start_date < Buckets[b][k + 1].start_date
           \/ /\ Buckets[b][k].start_date = Buckets[b][k + 1].start_date
              /\ ~StrLess(Buckets[b][k + 1].dag_id, Buckets[b][k].dag_id)
      /\ \A k \in DOMAIN Buckets[b] : FanOut([dag_id |-> Buckets[b][k].actual_dag_id]) =>
           \E t \in TaskOfEntry(Buckets[b][k]) :
             Buckets[b][k].start_date
               = IF task_instance_table[t].start_date # NoDate
                 THEN task_instance_table[t].start_date
                 ELSE dag_run_table[RunOf(task_instance_table[t])].start_date

\* C7: a task without a start time takes its run's, shares it with an ordinary
\* run, and the two entries are ordered by label, against the order of the loops
C7_Witness ==
  /\ Done
  /\ \E k \in 1..(Len(failed) - 1) :
       /\ failed[k].start_date = failed[k + 1].start_date
       /\ StrLess(failed[k].dag_id, failed[k + 1].dag_id)
       /\ FanOut([dag_id |-> failed[k].actual_dag_id])
       /\ ~FanOut([dag_id |-> failed[k + 1].actual_dag_id])
       /\ \E t \in TaskOfEntry(failed[k]) : task_instance_table[t].start_date = NoDate

\* ------------------------------------------------ claims about failures

\* the invocation has ended with an exception: nothing is returned, no further
\* step is taken
Aborted ==
  /\ pc = "raised"
  /\ stats = NoStats
  /\ success = << >> /\ failed = << >> /\ running = << >>
  /\ ~ENABLED Next

\* C8: when the main-window query fails, the invocation ends with the error:
\* no summary is returned, no streak is scanned, no bucket or count is made.
C8_MainQueryFailureAborts ==
  error = "main_query" =>
    /\ Aborted
    /\ streak_days = 0
    /\ dag_runs = << >>
    /\ included_dag_ids = {}

\* C8: the query fails although the database holds runs
C8_Witness ==
  /\ error = "main_query"
  /\ pc = "raised"
  /\ dag_run_table # << >>

\* C9, as stated: the failure of a day's query during the streak scan does not
\* abort the invocation; the day counts as 'streak broken' and a summary is
\* returned with the clean days counted before it.
C9_DayFailureTolerated ==
  /\ ~(pc = "raised" /\ error = "streak_query")
  /\ (Done /\ error = "streak_query") => stats.streak_days = streak_days

\* C9, amended: the failure of a day's query during the streak scan aborts the
\* invocation: the exception reaches the caller, and neither a summary nor the
\* streak counted so far is returned.
C9_DayFailureAborts ==
  error = "streak_query" => Aborted

\* C9: the query of the third day fails after two clean days
C9_Witness ==
  /\ error = "streak_query"
  /\ pc = "raised"
  /\ streak_days = 2
  /\ stats = NoStats

\* C10, as stated: when the job definitions cannot be loaded the invocation
\* does not fail, the monitored set is empty and the summary reports no job.
C10_MetadataFailureTolerated ==
  /\ error # "dagbag"
  /\ (dag_bag = NoDags /\ pc \in { "streak", "classify", "done" })
       => included_dag_ids = {}
  /\ (dag_bag = NoDags /\ Done)
       => stats.success_count + stats.failed_count + stats.running_count = 0

\* C10, amended: when no job definition can be loaded the invocation does not
\* fail for it: the monitored set is the always-included 'example_important_dag'
\* alone, no run survives the filter and the summary reports no job; when
\* loading the definitions raises, the invocation aborts with that exception.
C10_NoDefinitionsNoJobs ==
  /\ (dag_bag = NoDags /\ pc \in { "streak", "classify", "done" })
       => /\ included_dag_ids = { "example_important_dag" }
          /\ dag_runs = << >>
  /\ (dag_bag = NoDags /\ Done)
       => /\ stats.success_count = 0
          /\ stats.failed_count = 0
          /\ stats.running_count = 0
          /\ stats.status_emoji = "healthy"
  /\ error = "dagbag" => (Aborted /\ streak_days = 0)

\* C10: no definition is loaded, a job that is monitored otherwise has failed
\* today, and the summary reports no job
C10_Witness ==
  /\ Done
  /\ dag_bag = NoDags
  /\ \E i \in StartedRuns :
       /\ dag_run_table[i].dag_id = "sales_report"
       /\ dag_run_table[i].state = FAILED
       /\ DaysBack(dag_run_table[i].start_date) = 0
  /\ stats.failed_count = 0
  /\ stats.success_count = 0
  /\ stats.running_count = 0

\* ------------------------------------------------ claims about the links

\* every entry of the three buckets
AllEntries == Range(success) \cup Range(failed) \cup Range(running)

\* the execution timestamp with the time's colons as %3A
ClaimedTime(d) ==
  d.ymd \o "+" \o SubSeq(d.hms, 1, 2) \o "%3A" \o SubSeq(d.hms, 4, 5)
    \o "%3A" \o SubSeq(d.hms, 7, 8)

\* the query the claim gives for an execution timestamp with a UTC offset
ClaimedQuery(d, run_id) ==
  "execution_date=" \o ClaimedTime(d)
    \o (IF d.sign = "+" THEN "%2B" ELSE "%2D") \o d.off_h \o "%3A" \o d.off_m
    \o "&tab=graph&dag_run_id=" \o Replace(Replace(run_id, ":", "%3A"), "+", "%2B")

\* C11: the link of a run with execution timestamp 2025-11-18 19:00:00+00:00
\* and run_id scheduled__2025-11-18T19:00:00+00:00 has the query
\* execution_date=2025-11-18+19%3A00%3A00%2B00%3A00&...&dag_run_id=
\* scheduled__2025-11-18T19%3A00%3A00%2B00%3A00; in general the space becomes
\* '+', every colon %3A, the sign of the UTC offset %2B or %2D, and in run_id
\* only ':' and '+' are replaced.
C11_LinkEncoding ==
  Done =>
    \A e \in AllEntries :
      /\ (e.execution_date = LogicalDate(1, Utc)
            /\ e.run_id = "scheduled__2025-11-18T19:00:00+00:00")
           => e.dag_url = the_airflow_url \o "/dags/" \o e.actual_dag_id \o "/grid?"
                \o "execution_date=2025-11-18+19%3A00%3A00%2B00%3A00"
                \o "&tab=graph"
                \o "&dag_run_id=scheduled__2025-11-18T19%3A00%3A00%2B00%3A00"
      /\ (e.execution_date # NoExecutionDate /\ e.execution_date.sign # "")
           => e.dag_url = the_airflow_url \o "/dags/" \o e.actual_dag_id \o "/grid?"
                \o ClaimedQuery(e.execution_date, e.run_id)

\* ------------------------------------------- claims about the streak scan

\* C12: a day ends the streak only through a failure of a monitored job: the
\* failed runs and the failed run_dbt_task_for_ tasks of the day are both
\* filtered by the monitored set, so the day at which the scan stops has a
\* failure of a monitored job.
C12_OnlyMonitoredFailuresBreak ==
  (Done /\ stats.streak_days < max_streak_check)
    => stats.streak_days \in MonitoredFailureDays

\* the days with a FAILED run of a monitored fan-out job
FanOutRunFailureDays ==
  { DaysBack(dag_run_table[i].start_date) :
      i \in { j \in StartedRuns : /\ dag_run_table[j].state = FAILED
                                  /\ FanOut(dag_run_table[j])
                                  /\ Monitored(dag_run_table[j].dag_id)
                                  /\ ~ExcludedByName(dag_run_table[j].dag_id) } }

\* C13, as stated: the state of a fan-out run is not evaluated by the streak
\* scan: a day whose only failure is a monitored fan-out run in state FAILED,
\* without a failed matching task, is a clean day and does not end the streak.
C13_FanOutRunStateIgnored ==
  Done =>
    \A d \in FanOutRunFailureDays :
      ( /\ d < max_streak_check
        /\ d \notin FailedTaskDays
        /\ \A e \in ScanFailureDays : e >= d )
        => stats.streak_days > d

\* C13, amended: the streak scan evaluates the state of a fan-out run like that
\* of any other run, besides its tasks: a day of the scan with a monitored
\* fan-out run in state FAILED ends the streak, also when none of its matching
\* tasks failed.
C13_FanOutRunStateBreaks ==
  Done =>
    \A d \in FanOutRunFailureDays :
      d < max_streak_check => stats.streak_days <= d

\* C13: the only failure of the history is a FAILED run of a monitored fan-out
\* job whose task succeeded, five days back, and the streak is 5
C13_Witness ==
  /\ Done
  /\ FanOutRunFailureDays = { 5 }
  /\ ScanFailureDays = { 5 }
  /\ FailedTaskDays = {}
  /\ stats.streak_days = 5

\* ------------------------------------------------ claims about the sort

InWindow(r) ==
  /\ r.start_date # NoDate
  /\ r.start_date + UtcOffset <= now_local
  /\ \/ r.start_date + UtcOffset >= (now_local \div TicksPerDay) * TicksPerDay
     \/ r.state = RUNNING

Considered(r) == \E k \in DOMAIN dag_runs : dag_runs[k] = r

MonitoredRows ==
  { i \in DOMAIN dag_run_table : /\ Monitored(dag_run_table[i].dag_id)
                                 /\ ~ExcludedByName(dag_run_table[i].dag_id) }

\* C15: a run of a monitored job that is not excluded by name is considered for
\* the digest exactly when it started in [start of the local day, now] or is
\* RUNNING and started no later than now; so a monitored ordinary run that is
\* still RUNNING is in the running bucket however long ago it started, and one
\* that is not RUNNING and started before today is in no bucket.
C15_MainWindowSelection ==
  /\ pc \in { "streak", "classify", "done" } =>
       \A i \in MonitoredRows :
         Considered(dag_run_table[i]) <=> InWindow(dag_run_table[i])
  /\ Done =>
       \A i \in MonitoredRows : ~FanOut(dag_run_table[i]) =>
         /\ (dag_run_table[i].state = RUNNING /\ InWindow(dag_run_table[i]))
              => /\ Cardinality(EntriesOf(3, dag_run_table[i])) = 1
                 /\ EntriesOf(1, dag_run_table[i]) = {}
                 /\ EntriesOf(2, dag_run_table[i]) = {}
         /\ (dag_run_table[i].state # RUNNING /\ ~InWindow(dag_run_table[i]))
              => \A b \in 1..3 : EntriesOf(b, dag_run_table[i]) = {}

\* C15: a run that has been RUNNING for five days is in the running bucket,
\* and a FAILED run of yesterday is in no bucket
C15_Witness ==
  /\ Done
  /\ \E i \in MonitoredRows :
       /\ dag_run_table[i].state = RUNNING
       /\ dag_run_table[i].start_date # NoDate
       /\ DaysBack(dag_run_table[i].start_date) = 5
       /\ EntriesOf(3, dag_run_table[i]) # {}
  /\ \E i \in MonitoredRows :
       /\ dag_run_table[i].state = FAILED
       /\ dag_run_table[i].start_date # NoDate
       /\ DaysBack(dag_run_table[i].start_date) = 1
       /\ \A b \in 1..3 : EntriesOf(b, dag_run_table[i]) = {}

====
